---- MODULE Spec2Model ----
(***************************************************************************)
(* A model of gen.py, the glTF scene tiler: the script loads a scene,      *)
(* accumulates an axis-aligned bounding box over every node's primitives,  *)
(* derives a per-axis extent, appends one copy of every input node per     *)
(* grid cell, rewrites scenes[0].nodes and nodes, serialises the document  *)
(* and writes the output file.                                             *)
(*                                                                         *)
(* Numbers.  Python floats are modelled on an exact fixed-point lattice:   *)
(* the real value 1.0 is the integer One, every float of an input document *)
(* is a multiple of One, and every product, the factor 1.5 and the true    *)
(* division X / 2 are exact on the lattice for such inputs.  FltMin stands *)
(* for sys.float_info.min, the smallest POSITIVE normal float: a value     *)
(* strictly between 0 and One.  FltMax stands for sys.float_info.max.      *)
(*                                                                         *)
(* Documents.  A JSON object is a record whose DOMAIN is its key set, so   *)
(* that a missing key is a missing field; a JSON array is a sequence.  A   *)
(* file's contents are represented by the document its text encodes.       *)
(***************************************************************************)
EXTENDS Integers, Sequences, FiniteSets, TLC

\* Bounds of the input family.
MaxNodes == 2
MaxCells == 6

\* sys.float_info.max and sys.float_info.min on the lattice.
FltMax == 80000000
FltMin == 4
One == 2 * FltMin
Inf == 2 * FltMax

V(a, b, c) == <<a * One, b * One, c * One>>
Axes == 1..3

---------------------------------------------------------------------------
(* Python primitives used by the script.                                   *)

\* list[k]: a negative k counts from the end; anything else outside the
\* list raises IndexError.
InRange(list, k) == -Len(list) <= k /\ k < Len(list)
Index(list, k) == IF k >= 0 THEN list[k + 1] ELSE list[Len(list) + k + 1]

Has(obj, key) == key \in DOMAIN obj

Min2(a, b) == IF b < a THEN b ELSE a
Max2(a, b) == IF b > a THEN b ELSE a

Abs(a) == IF a < 0 THEN -a ELSE a

\* Float product of two lattice values; an infinite factor or a result
\* beyond FltMax gives +-inf.
Mul(a, b) ==
    IF Abs(a) >= Inf \/ Abs(b) >= Inf
    THEN IF (a < 0) = (b < 0) THEN Inf ELSE -Inf
    ELSE LET r == (a * b) \div One
         IN  IF r > FltMax THEN Inf ELSE IF r < -FltMax THEN -Inf ELSE r

\* Float difference a - b.  A term of magnitude FltMin is absorbed by a
\* non-zero term of ordinary magnitude (it is far below half an ulp).
FSub(a, b) ==
    IF Abs(a) = FltMin /\ Abs(b) >= One THEN -b
    ELSE IF Abs(b) = FltMin /\ Abs(a) >= One THEN a
    ELSE a - b

\* str(k) for k >= 0, as the f-string formats an int.
Digit(d) == <<"0", "1", "2", "3", "4", "5", "6", "7", "8", "9">>[d + 1]
RECURSIVE Decimal(_)
Decimal(k) == IF k < 10 THEN Digit(k) ELSE Decimal(k \div 10) \o Digit(k % 10)

---------------------------------------------------------------------------
(* The input family.                                                       *)

Accessors == <<
    [count |-> 8, min |-> V(-1, -1, -1), max |-> V(1, 1, 1)],
    [count |-> 8, min |-> V(-3, -3, -3), max |-> V(-2, -1, -2)],
    [count |-> 4, min |-> V(0, 1, 0),    max |-> V(2, 1, 2)],
    [count |-> 8, max |-> V(1, 1, 1)],
    [count |-> 8, min |-> V(-1, -1, -1)],
    [count |-> 8, min |-> V(0, 0, 0),    max |-> V(1, 2, 1)] >>

Prim(a) == [attributes |-> [POSITION |-> a], mode |-> 4]

Meshes == <<
    [primitives |-> <<Prim(0)>>],
    [primitives |-> <<Prim(1)>>],
    [primitives |-> <<Prim(1), Prim(0)>>],
    [primitives |-> <<Prim(2)>>],
    [primitives |-> <<[attributes |-> [NORMAL |-> 0], mode |-> 4]>>],
    [primitives |-> <<Prim(3)>>],
    [primitives |-> <<Prim(4)>>],
    [primitives |-> <<Prim(6)>>],
    [primitives |-> <<Prim(-1)>>] >>

Rot == <<0, One, 0, 0>>

NodeSet == {
    [mesh |-> 0, name |-> "Body"],
    [mesh |-> 1, name |-> "Wing", translation |-> V(1, 0, -2), rotation |-> Rot],
    [mesh |-> 0, name |-> "Body", translation |-> V(0, 0, -2), scale |-> V(-1, 1, 2)],
    [mesh |-> 2, name |-> "Tail", scale |-> V(2, 1, 1), rotation |-> Rot],
    [mesh |-> 3, name |-> "Fin"],
    [name |-> "Camera"],
    [mesh |-> 0],
    [mesh |-> -1, name |-> "Last"],
    [mesh |-> 9, name |-> "Gone"],
    [mesh |-> 4, name |-> "NoPos"],
    [mesh |-> 5, name |-> "NoMin"],
    [mesh |-> 6, name |-> "NoMax"],
    [mesh |-> 7, name |-> "NoAcc"] }

NodeLists == UNION {[1..k -> NodeSet] : k \in 0..MaxNodes}

SceneLists == {
    <<[nodes |-> <<0>>, name |-> "Scene"]>>,
    <<[nodes |-> <<1, 0>>, name |-> "Main"], [nodes |-> <<0>>, name |-> "Alt"]>>,
    <<>> }

Grids == {g \in (1..MaxCells) \X (1..MaxCells) \X (1..MaxCells) :
            g[1] * g[2] * g[3] <= MaxCells}

Document(ns, ss) ==
    [asset |-> [version |-> "2.0"], scenes |-> ss, nodes |-> ns,
     meshes |-> Meshes, accessors |-> Accessors]

NoFile == [absent |-> TRUE]

---------------------------------------------------------------------------
(* The program state.                                                      *)

VARIABLES
    input,      \* the document stored in the input file
    X, Y, Z,    \* the grid dimensions
    gltf,       \* the loaded document
    aabb_min, aabb_max, extent,
    k,          \* position of the bounding-box loop in gltf.nodes
    nodes,      \* the synthesized node list
    x, y, z, i, \* position of the tiling loops; i indexes gltf.nodes
    ret,        \* the serialised document
    outfile,    \* the output file
    pc, err

vars == <<input, X, Y, Z, gltf, aabb_min, aabb_max, extent, k, nodes,
          x, y, z, i, ret, outfile, pc, err>>

Init ==
    /\ input \in {Document(ns, ss) : ns \in NodeLists, ss \in SceneLists}
    /\ \E g \in Grids : X = g[1] /\ Y = g[2] /\ Z = g[3]
    /\ gltf = input
    /\ aabb_min = <<FltMax, FltMax, FltMax>>
    /\ aabb_max = <<FltMin, FltMin, FltMin>>
    /\ extent = <<0, 0, 0>>
    /\ k = 0
    /\ nodes = <<>>
    /\ x = 0 /\ y = 0 /\ z = 0 /\ i = 0
    /\ ret = NoFile
    /\ outfile = NoFile
    /\ pc = "aabb"
    /\ err = "none"

---------------------------------------------------------------------------
(* The bounding-box pass.                                                  *)

Translation(n) == IF Has(n, "translation") THEN n.translation ELSE <<0, 0, 0>>
Scale(n) == IF Has(n, "scale") THEN n.scale ELSE <<One, One, One>>
Rotation(n) == IF Has(n, "rotation") THEN n.rotation ELSE <<0, 0, 0, One>>

\* The exception, if any, raised by gltf["meshes"][n["mesh"]]["primitives"].
MeshErr(doc, n) ==
    IF ~Has(n, "mesh") THEN "KeyError"
    ELSE IF ~InRange(doc.meshes, n.mesh) THEN "IndexError"
    ELSE IF ~Has(Index(doc.meshes, n.mesh), "primitives") THEN "KeyError"
    ELSE "none"

Primitives(doc, n) == Index(doc.meshes, n.mesh).primitives

\* The exception, if any, raised while primitive p is scanned: the
\* accessor lookup, then a["min"], then a["max"].
PrimErr(doc, p) ==
    IF ~Has(p, "attributes") THEN "KeyError"
    ELSE IF ~Has(p.attributes, "POSITION") THEN "KeyError"
    ELSE IF ~InRange(doc.accessors, p.attributes.POSITION) THEN "IndexError"
    ELSE IF ~Has(Index(doc.accessors, p.attributes.POSITION), "min") THEN "KeyError"
    ELSE IF ~Has(Index(doc.accessors, p.attributes.POSITION), "max") THEN "KeyError"
    ELSE "none"

Accessor(doc, p) == Index(doc.accessors, p.attributes.POSITION)

\* One pass of the inner loop body: box is <<aabb_min, aabb_max>>.
Accumulate(box, a, translation, scale) ==
    << [c \in Axes |-> Min2(box[1][c], translation[c] + Mul(a.min[c], scale[c]))],
       [c \in Axes |-> Max2(box[2][c], translation[c] + Mul(a.max[c], scale[c]))] >>


\* An inner loop that skips a primitive whose scan raises.
RECURSIVE ScanPrimsSkipBad(_, _, _, _, _, _)
ScanPrimsSkipBad(doc, prims, j, box, translation, scale) ==
    IF j > Len(prims) THEN [err |-> "none", box |-> box]
    ELSE IF PrimErr(doc, prims[j]) # "none"
         THEN ScanPrimsSkipBad(doc, prims, j + 1, box, translation, scale)
    ELSE ScanPrimsSkipBad(doc, prims, j + 1,
                   Accumulate(box, Accessor(doc, prims[j]), translation, scale),
                   translation, scale)

\* The inner loop over a node's primitives, from primitive j on: the
\* exception that ends it, or the accumulated box.
RECURSIVE ScanPrims(_, _, _, _, _, _)
ScanPrims(doc, prims, j, box, translation, scale) ==
    IF j > Len(prims) THEN [err |-> "none", box |-> box]
    ELSE IF PrimErr(doc, prims[j]) # "none"
         THEN [err |-> PrimErr(doc, prims[j]), box |-> box]
    ELSE ScanPrims(doc, prims, j + 1,
                   Accumulate(box, Accessor(doc, prims[j]), translation, scale),
                   translation, scale)

\* One iteration of the outer loop, for node n.
ScanNode(doc, n, box) ==
    IF MeshErr(doc, n) # "none" THEN [err |-> MeshErr(doc, n), box |-> box]
    ELSE ScanPrims(doc, Primitives(doc, n), 1, box, Translation(n), Scale(n))

Raise(e) == pc' = "error" /\ err' = e

AabbStep ==
    /\ pc = "aabb"
    /\ k < Len(gltf.nodes)
    /\ LET r == ScanNode(gltf, gltf.nodes[k + 1], <<aabb_min, aabb_max>>)
       IN  IF r.err # "none"
           THEN /\ Raise(r.err)
                /\ UNCHANGED <<aabb_min, aabb_max, k>>
           ELSE /\ aabb_min' = r.box[1]
                /\ aabb_max' = r.box[2]
                /\ k' = k + 1
                /\ UNCHANGED <<pc, err>>
    /\ UNCHANGED <<input, X, Y, Z, gltf, extent, nodes, x, y, z, i, ret, outfile>>

Extent(mn, mx) == [c \in Axes |-> Mul(FSub(mx[c], mn[c]), (3 * One) \div 2)]

ExtentStep ==
    /\ pc = "aabb"
    /\ k = Len(gltf.nodes)
    /\ extent' = Extent(aabb_min, aabb_max)
    /\ pc' = "tile"
    /\ UNCHANGED <<input, X, Y, Z, gltf, aabb_min, aabb_max, k, nodes,
                   x, y, z, i, ret, outfile, err>>

---------------------------------------------------------------------------
(* The tiling pass.                                                        *)

\* f"{name} {x} {y} {z}"
NodeName(name, cx, cy, cz) ==
    name \o " " \o Decimal(cx) \o " " \o Decimal(cy) \o " " \o Decimal(cz)


\* size // 2, floor division.
HalfFloor(size) == (size \div 2) * One

\* size / 2, Python's true division.
Half(size) == (size * One) \div 2

\* translation[c] + (cell - size / 2) * extent[c]
Shift(t, cell, size, e) == t + Mul(cell * One - Half(size), e)

\* The node appended for input node n in cell (cx, cy, cz).
Copy(n, cx, cy, cz) ==
    [mesh |-> n.mesh,
     name |-> NodeName(n.name, cx, cy, cz),
     rotation |-> Rotation(n),
     scale |-> Scale(n),
     translation |-> << Shift(Translation(n)[1], cx, X, extent[1]),
                        Shift(Translation(n)[2], cy, Y, extent[2]),
                        Shift(Translation(n)[3], cz, Z, extent[3]) >>]


\* Advance with the z loop one iteration short.
AdvanceShortZ(cx, cy, cz, ci) ==
    IF ci + 1 < Len(gltf.nodes) THEN <<cx, cy, cz, ci + 1>>
    ELSE IF cz + 1 < Z - 1 THEN <<cx, cy, cz + 1, 0>>
    ELSE IF cy + 1 < Y THEN <<cx, cy + 1, 0, 0>>
    ELSE <<cx + 1, 0, 0, 0>>

\* Advance with the y loop nested inside the z loop.
AdvanceYInner(cx, cy, cz, ci) ==
    IF ci + 1 < Len(gltf.nodes) THEN <<cx, cy, cz, ci + 1>>
    ELSE IF cy + 1 < Y THEN <<cx, cy + 1, cz, 0>>
    ELSE IF cz + 1 < Z THEN <<cx, 0, cz + 1, 0>>
    ELSE <<cx + 1, 0, 0, 0>>

\* The loop position after the body has run at (cx, cy, cz, ci): the next
\* input node, else the next z, else the next y, else the next x.
Advance(cx, cy, cz, ci) ==
    IF ci + 1 < Len(gltf.nodes) THEN <<cx, cy, cz, ci + 1>>
    ELSE IF cz + 1 < Z THEN <<cx, cy, cz + 1, 0>>
    ELSE IF cy + 1 < Y THEN <<cx, cy + 1, 0, 0>>
    ELSE <<cx + 1, 0, 0, 0>>

\* The four loops have a body left to run.
InLoops == x < X /\ Len(gltf.nodes) > 0

TileStep ==
    /\ pc = "tile"
    /\ InLoops
    /\ LET n == gltf.nodes[i + 1]
       IN  IF ~Has(n, "name") \/ ~Has(n, "mesh")
           THEN /\ Raise("KeyError")
                /\ UNCHANGED <<nodes, x, y, z, i>>
           ELSE /\ nodes' = Append(nodes, Copy(n, x, y, z))
                /\ x' = Advance(x, y, z, i)[1]
                /\ y' = Advance(x, y, z, i)[2]
                /\ z' = Advance(x, y, z, i)[3]
                /\ i' = Advance(x, y, z, i)[4]
                /\ UNCHANGED <<pc, err>>
    /\ UNCHANGED <<input, X, Y, Z, gltf, aabb_min, aabb_max, extent, k, ret, outfile>>

---------------------------------------------------------------------------
(* The document rewrite and the write-out.                                 *)


\* A root list counting from 1.
RootListOneBased(count) == [j \in 1..count |-> j]

\* [i for i in range(count)]
RootList(count) == [j \in 1..count |-> j - 1]

\* obj[key] = value
SetKey(obj, key, value) ==
    [f \in DOMAIN obj \cup {key} |-> IF f = key THEN value ELSE obj[f]]


\* A rewrite that replaces the first scene instead of its nodes key.
RewriteWholeScene(doc, ns) ==
    [doc EXCEPT !.scenes[1] = [nodes |-> RootList(Len(ns))],
                !.nodes = ns]

\* gltf["scenes"][0]["nodes"] = [...]; gltf["nodes"] = nodes
Rewrite(doc, ns) ==
    [doc EXCEPT !.scenes[1] = SetKey(@, "nodes", RootList(Len(ns))),
                !.nodes = ns]

RewriteStep ==
    /\ pc = "tile"
    /\ ~InLoops
    /\ IF Len(gltf.scenes) = 0
       THEN /\ Raise("IndexError")
            /\ UNCHANGED gltf
       ELSE /\ gltf' = Rewrite(gltf, nodes)
            /\ pc' = "dumps"
            /\ UNCHANGED err
    /\ UNCHANGED <<input, X, Y, Z, aabb_min, aabb_max, extent, k, nodes,
                   x, y, z, i, ret, outfile>>

\* json.dumps(gltf, indent=2)
DumpsStep ==
    /\ pc = "dumps"
    /\ ret' = gltf
    /\ pc' = "write"
    /\ UNCHANGED <<input, X, Y, Z, gltf, aabb_min, aabb_max, extent, k, nodes,
                   x, y, z, i, outfile, err>>

\* open(..., "w").write(ret)
WriteStep ==
    /\ pc = "write"
    /\ outfile' = ret
    /\ pc' = "done"
    /\ UNCHANGED <<input, X, Y, Z, gltf, aabb_min, aabb_max, extent, k, nodes,
                   x, y, z, i, ret, err>>

Next == AabbStep \/ ExtentStep \/ TileStep \/ RewriteStep \/ DumpsStep \/ WriteStep

Spec == Init /\ [][Next]_vars

---------------------------------------------------------------------------
(* Properties.                                                             *)

N == Len(input.nodes)
Total == N * X * Y * Z
Done == pc = "done"

\* C1. Node count law: a completed run's output document has exactly
\* n * X * Y * Z nodes, n the number of input nodes.
NodeCountLaw == Done => Len(outfile.nodes) = N * X * Y * Z

NodeCountWitness == Done /\ N = 2 /\ X = 1 /\ Y = 2 /\ Z = 3

\* C2. Output order and identity: the output node at index
\* ((x*Y + y)*Z + z)*n + i is the copy of input node i for cell (x, y, z):
\* same mesh, name "<name> x y z" in unpadded decimal, and the input node's
\* rotation and scale or their defaults.
OutputOrder ==
    /\ NodeName("Body", 2, 0, 7) = "Body 2 0 7"
    /\ NodeName("Body", 10, 0, 123) = "Body 10 0 123"
    /\ Done =>
         \A cx \in 0..(X - 1), cy \in 0..(Y - 1), cz \in 0..(Z - 1), ci \in 0..(N - 1) :
            LET o == outfile.nodes[((cx * Y + cy) * Z + cz) * N + ci + 1]
                src == input.nodes[ci + 1]
            IN  /\ o.mesh = src.mesh
                /\ o.name = src.name \o " " \o ToString(cx) \o " "
                                     \o ToString(cy) \o " " \o ToString(cz)
                /\ o.rotation = IF "rotation" \in DOMAIN src
                                THEN src.rotation ELSE <<0, 0, 0, One>>
                /\ o.scale = IF "scale" \in DOMAIN src
                             THEN src.scale ELSE <<One, One, One>>

OutputOrderWitness ==
    /\ Done /\ N = 2 /\ Y = 2 /\ Z = 3
    /\ "rotation" \in DOMAIN input.nodes[1]
    /\ "scale" \in DOMAIN input.nodes[2]
    /\ "rotation" \notin DOMAIN input.nodes[2]

\* C3. Root list law: after a completed run scenes[0].nodes is exactly
\* 0, 1, ..., n*X*Y*Z - 1, whatever the input's scenes[0].nodes held.
RootListLaw ==
    Done => LET r == outfile.scenes[1].nodes
            IN  /\ Len(r) = Total
                /\ \A j \in 1..Total : r[j] = j - 1

RootListWitness ==
    Done /\ Total >= 3 /\ input.scenes[1].nodes = <<1, 0>>

\* C4. Translation law: on each axis a synthesized node's translation is
\* the input node's translation (0 when absent) plus
\* (cell - size/2) * 1.5 * (aabb_max - aabb_min) with exact halving; on an
\* axis of even size the cell size/2 is not shifted; the single node of a
\* 1x1x1 grid over bounds [-1, 1] is translated by -1.5 on each axis.
TranslationLaw ==
    Done =>
      /\ \A cx \in 0..(X - 1), cy \in 0..(Y - 1), cz \in 0..(Z - 1), ci \in 0..(N - 1) :
            LET o == outfile.nodes[((cx * Y + cy) * Z + cz) * N + ci + 1]
                src == input.nodes[ci + 1]
                t == IF "translation" \in DOMAIN src THEN src.translation
                     ELSE <<0, 0, 0>>
                cell == <<cx, cy, cz>>
                size == <<X, Y, Z>>
            IN  \A c \in Axes :
                  /\ 4 * o.translation[c] =
                        4 * t[c] + (2 * cell[c] - size[c]) * 3
                                     * FSub(aabb_max[c], aabb_min[c])
                  /\ 2 * cell[c] = size[c] => o.translation[c] = t[c]
      /\ (input.nodes = <<[mesh |-> 0, name |-> "Body"]>> /\ X = 1 /\ Y = 1 /\ Z = 1)
           => /\ aabb_min = V(-1, -1, -1) /\ aabb_max = V(1, 1, 1)
              /\ \A c \in Axes : 2 * outfile.nodes[1].translation[c] = -3 * One

TranslationWitness ==
    /\ Done /\ X = 2 /\ Y = 3 /\ N = 2
    /\ "translation" \in DOMAIN input.nodes[1]
    /\ "translation" \notin DOMAIN input.nodes[2]
    /\ \E c \in Axes : aabb_max[c] > aabb_min[c]

\* The bounding-box pass has scanned every input node.
AabbDone == k = N /\ pc # "error"

\* C5. AABB of a single node with a single primitive: the computed box is
\* translation + scale * accessor.min and translation + scale * accessor.max
\* componentwise, for accessor bounds of any sign.
AabbSingle ==
    (AabbDone /\ N = 1 /\ Len(Primitives(input, input.nodes[1])) = 1) =>
        LET n == input.nodes[1]
            a == Accessor(input, Primitives(input, n)[1])
        IN  \A c \in Axes :
              /\ aabb_min[c] = Translation(n)[c] + Mul(a.min[c], Scale(n)[c])
              /\ aabb_max[c] = Translation(n)[c] + Mul(a.max[c], Scale(n)[c])

\* The geometry bounds of input node ci's copy in cell q (cells numbered in
\* loop order): the values, on axis c, of output translation + scale *
\* accessor min and max over the node's primitives.
Corners(q, ci, c) ==
    LET o == outfile.nodes[q * N + ci + 1]
    IN  UNION { { o.translation[c] + Mul(Accessor(input, p).min[c], o.scale[c]),
                  o.translation[c] + Mul(Accessor(input, p).max[c], o.scale[c]) } :
                p \in { Primitives(input, input.nodes[ci + 1])[j] :
                          j \in 1..Len(Primitives(input, input.nodes[ci + 1])) } }

CopyCorners(q, c) == UNION { Corners(q, ci, c) : ci \in 0..(N - 1) }
Lo(q, c) == CHOOSE v \in CopyCorners(q, c) : \A w \in CopyCorners(q, c) : v <= w
Hi(q, c) == CHOOSE v \in CopyCorners(q, c) : \A w \in CopyCorners(q, c) : v >= w

\* C6. Non-overlap: in a completed run over a scene with at least one
\* primitive, the copies in any two different cells are separated on at
\* least one axis.
NonOverlap ==
    (Done /\ N >= 1) =>
        \A q1, q2 \in 0..(X * Y * Z - 1) :
            q1 # q2 => \E c \in Axes : Hi(q1, c) < Lo(q2, c) \/ Hi(q2, c) < Lo(q1, c)

\* C7. Pass-through: after a completed run every top-level section other
\* than nodes and scenes equals the input's, every scene but the first
\* equals the input's, and the first scene differs at most in its nodes key.
PassThrough ==
    Done =>
      /\ DOMAIN outfile = DOMAIN input
      /\ \A f \in DOMAIN input \ {"nodes", "scenes"} : outfile[f] = input[f]
      /\ Len(outfile.scenes) = Len(input.scenes)
      /\ \A j \in 2..Len(input.scenes) : outfile.scenes[j] = input.scenes[j]
      /\ DOMAIN outfile.scenes[1] = DOMAIN input.scenes[1] \cup {"nodes"}
      /\ \A f \in DOMAIN input.scenes[1] \ {"nodes"} :
            outfile.scenes[1][f] = input.scenes[1][f]

PassThroughWitness ==
    Done /\ Len(input.scenes) = 2 /\ Total >= 2 /\ outfile.nodes # input.nodes

\* The output file exists only once the bounding-box pass, the tiling pass
\* and the serialisation have all completed.
WrittenLast ==
    outfile # NoFile =>
        /\ Done
        /\ k = N
        /\ Len(nodes) = Total
        /\ ret = gltf
        /\ outfile = ret

\* A required field is missing somewhere in the document.
MissingAnywhere(doc) ==
    \/ \E j \in 1..Len(doc.nodes) :
          ~Has(doc.nodes[j], "mesh") \/ ~Has(doc.nodes[j], "name")
    \/ \E m \in 1..Len(doc.meshes) : \E j \in 1..Len(doc.meshes[m].primitives) :
          ~Has(doc.meshes[m].primitives[j].attributes, "POSITION")
    \/ \E j \in 1..Len(doc.accessors) :
          ~Has(doc.accessors[j], "min") \/ ~Has(doc.accessors[j], "max")

\* A required field is missing on a node, or on a primitive or accessor
\* that some node's mesh reference leads to.
MissingReached(doc) ==
    \E j \in 1..Len(doc.nodes) :
        LET n == doc.nodes[j]
        IN  \/ ~Has(n, "mesh")
            \/ ~Has(n, "name")
            \/ /\ InRange(doc.meshes, n.mesh)
               /\ \E h \in 1..Len(Primitives(doc, n)) :
                    LET p == Primitives(doc, n)[h]
                    IN  \/ ~Has(p.attributes, "POSITION")
                        \/ /\ InRange(doc.accessors, p.attributes.POSITION)
                           /\ \/ ~Has(Accessor(doc, p), "min")
                              \/ ~Has(Accessor(doc, p), "max")

\* C8 as stated. All-or-nothing output: the file is written last, and a
\* required field missing anywhere in the input leaves no output file.
AllOrNothingAnywhere ==
    /\ WrittenLast
    /\ MissingAnywhere(input) => (outfile = NoFile /\ ~Done)

\* C8 as amended. All-or-nothing output: the file is written last, and a
\* required field missing on a node, or on a primitive or accessor reached
\* from a node's mesh, keeps the run from completing and leaves no file.
AllOrNothing ==
    /\ WrittenLast
    /\ MissingReached(input) =>
          (outfile = NoFile /\ pc \in {"aabb", "tile", "error"})
    /\ (pc = "error" /\ MissingReached(input)) => err \in {"KeyError", "IndexError"}

AllOrNothingWitness ==
    /\ pc = "error" /\ err = "KeyError" /\ k = 1 /\ N = 2
    /\ Has(input.nodes[2], "mesh") /\ Has(input.nodes[2], "name")
    /\ MissingReached(input)
    /\ outfile = NoFile

\* C9. Dangling references are rejected: a node's mesh index, or the
\* POSITION index of a primitive of a node's mesh, outside 0 .. length-1
\* makes the run fail and leaves no output.
DanglingRejected ==
    (\E j \in 1..N :
        LET n == input.nodes[j]
        IN  /\ Has(n, "mesh")
            /\ \/ n.mesh \notin 0..(Len(input.meshes) - 1)
               \/ \E h \in 1..Len(Primitives(input, n)) :
                    LET p == Primitives(input, n)[h]
                    IN  /\ Has(p.attributes, "POSITION")
                        /\ p.attributes.POSITION \notin 0..(Len(input.accessors) - 1))
    => (outfile = NoFile /\ ~Done)

\* C10. AABB ordering: once every node of a scene with at least one
\* primitive is scanned, aabb_max >= aabb_min on each axis (every accessor
\* of the family has min <= max), so every extent component is >= 0.
AabbOrdered ==
    (AabbDone /\ N >= 1) =>
        /\ \A c \in Axes : aabb_max[c] >= aabb_min[c]
        /\ pc # "aabb" => \A c \in Axes : extent[c] >= 0

=============================================================================
